---- MODULE Spec2Model ----
(***************************************************************************)
(* A model of talon_ui_helper: the screenshot overlays (overlays.py), the  *)
(* command wizard entry point (command_wizard.py) and the image-relative   *)
(* pointer placement (mouse_helper.py).                                    *)
(*                                                                         *)
(* Time is counted in seconds.  cron is the set of pending cron.after      *)
(* jobs, each with the time left until it is due; a due job runs before    *)
(* time advances further.  Handlers run to completion on the UI thread, so *)
(* each handler is one action.                                             *)
(***************************************************************************)
EXTENDS Integers, Sequences, FiniteSets, TLC

(* ------------------------------ bounds -------------------------------- *)

\* The screen (and the captured frame) is MaxX by MaxY pixels.
MaxX == 1
MaxY == 1
\* Overlay instances that may be constructed in the multi-overlay run.
MaxOverlays == 2
\* Pending flash-clear jobs per overlay.
MaxFlash == 2
\* Self-match workers of one overlay still running after their join timed out.
MaxLate == 1
\* MarkerUi instances that may be constructed.
MaxMarkerUis == 3

(* ------------------------- program constants -------------------------- *)

\* cron.after("1000ms", _set_unfocus_destroy_enabled), in seconds
GraceDelay == 1
\* self._reset_settled_countdown("2s")
SettleDelay == 2
\* cron.after("2s", clear_flash)
FlashDelay == 2
\* th.join(timeout=1)
JoinTimeout == 1
\* magnitude = 25 if 'shift' in evt.mods else 1
ShiftMagnitude == 25
\* len(self.result_rects) > 20
MaxShownMatches == 20

(* ------------------------------ values -------------------------------- *)

\* Python's None / an optional value: the empty sequence or a one-element one.
None == << >>
Some(v) == << v >>
IsNone(opt) == opt = << >>
The(opt) == opt[1]

\* talon.types.Rect
TalonRect(x, y, width, height) == [x |-> x, y |-> y, width |-> width, height |-> height]

\* Rect.contains(px, py): the point lies in the half-open box.
RectContains(r, p) ==
    /\ r.x <= p.x /\ p.x < r.x + r.width
    /\ r.y <= p.y /\ p.y < r.y + r.height

Max(a, b) == IF a >= b THEN a ELSE b
Min(a, b) == IF a <= b THEN a ELSE b

\* ui.main_screen().rect / active_window.screen.rect
screen_rect == TalonRect(0, 0, MaxX, MaxY)

\* evt.gpos of a mouse event on the canvas
Points == { [x |-> px, y |-> py] : px \in 0..MaxX, py \in 0..MaxY }

Ids == 1..MaxOverlays
\* MarkerUi instances, numbered in the order of their construction
MarkerIds == 1..MaxMarkerUis
\* No instance constructed yet in this slot.
NoMarkerUi == [state |-> "absent", markers |-> << >>]
JobIds == 1..(MaxOverlays * (MaxFlash + 3))

VARIABLES
    ov,        \* ov[o]: the fields of overlay instance o
    cron,      \* the pending cron jobs
    results,   \* results[o]: the arguments result_handler was called with, in order
    late,      \* late[o]: the match lists that running late workers will still store
    burst,     \* observation of the settle notifications of the current nudge burst
    search,    \* observation of how the last finished=true search of an overlay ended
    press,     \* observation of the overlay as it was when the help panel was pressed
    hl_in,         \* a stored hl_region that _get_region is asked about
    region_out,    \* what _get_region returned for it
    region_again,  \* what _get_region returns once that result is the stored region
    mouse_pos,     \* the pointer's position
    located,       \* what locate.locate returns for the template on this screen
    call,          \* the arguments of the last pointer-placement call
    match_rect,    \* the match that call selected
    outcome,       \* how that call ended
    marker_ui,     \* the module global marker_ui of marker_ui_actions.py
    marker_uis,    \* marker_uis[i]: the MarkerUi instance constructed i-th
    ctx_tags       \* ctx.tags of marker_ui_actions.py

ovVars == << ov, cron, results, late, burst, search, press >>
normVars == << hl_in, region_out, region_again >>
mouseVars == << mouse_pos, located, call, match_rect, outcome >>
markerVars == << marker_ui, marker_uis, ctx_tags >>
vars == << ov, cron, results, late, burst, search, press, hl_in, region_out, region_again,
           mouse_pos, located, call, match_rect, outcome,
           marker_ui, marker_uis, ctx_tags >>


(* ------------------------- overlay instances -------------------------- *)

\* No instance constructed yet in this slot.
NoOverlay ==
    [ phase |-> "absent", kind |-> "none", focused |-> FALSE,
      unfocus_destroy_enabled |-> FALSE, calculate_rect_state |-> "initial",
      can_rect |-> screen_rect, text_position |-> "bottom", text_rect |-> None,
      flash_text |-> None, hl_region |-> None, is_selecting |-> FALSE,
      settled_countdown_timer |-> None, offset_coord |-> None,
      result_rects |-> << >> ]

\* ScreenshotOverlay.__init__, BoxSelectorOverlay.__init__ and
\* ImageSelectorOverlay.__init__: the fields right after construction.
\* phase is the canvas: "open" from Canvas.from_rect until can.close().
NewOverlay(kind) ==
    [ NoOverlay EXCEPT !.phase = "open", !.kind = kind, !.focused = TRUE ]

NoBurst == [ len |-> 0, settled |-> 0, mouse |-> FALSE, since |-> 0 ]

\* The part of the state one handler of overlay o reads and writes.
World(o) ==
    [ s |-> ov[o], cron |-> cron, results |-> results[o], late |-> late[o],
      burst |-> burst[o], search |-> search[o], press |-> press[o] ]

\* Store what a handler of overlay o left behind.
Commit(o, w) ==
    /\ ov' = [ov EXCEPT ![o] = w.s]
    /\ cron' = w.cron
    /\ results' = [results EXCEPT ![o] = w.results]
    /\ late' = [late EXCEPT ![o] = w.late]
    /\ burst' = [burst EXCEPT ![o] = w.burst]
    /\ search' = [search EXCEPT ![o] = w.search]
    /\ press' = [press EXCEPT ![o] = w.press]
    /\ UNCHANGED << normVars, mouseVars, markerVars >>

(* -------------------------------- cron -------------------------------- *)

Job(id, o, kind, left) == [id |-> id, o |-> o, kind |-> kind, left |-> left]

FreeIds(jobs) == { i \in JobIds : \A j \in jobs : j.id # i }
HasFreeId(jobs) == FreeIds(jobs) # {}
NextId(jobs) == CHOOSE i \in FreeIds(jobs) : \A k \in FreeIds(jobs) : i <= k

\* cron.after(delay, fn)
cron_after(jobs, o, kind, delay) == jobs \cup { Job(NextId(jobs), o, kind, delay) }

\* cron.cancel(handle)
cron_cancel(jobs, handle) == { j \in jobs : j.id # handle }

\* d seconds pass: every pending job comes d closer to being due.
Elapse(jobs, d) == { [j EXCEPT !.left = Max(0, j.left - d)] : j \in jobs }

\* The observation of a burst: the time since its last nudge, once it has begun.
ElapseBurst(b, d) ==
    IF b.len = 0 THEN b
    ELSE [b EXCEPT !.since = Min(SettleDelay + JoinTimeout, b.since + d)]

PendingJobs(o, kind) == { j \in cron : j.o = o /\ j.kind = kind }

(* ------------------------- ScreenshotOverlay -------------------------- *)

\* ScreenshotOverlay.destroy: self.can.close()
destroy(w) == [w EXCEPT !.s.phase = "closed"]

\* self.result_handler(r)
result_handler(w, r) == [w EXCEPT !.results = Append(w.results, r)]

\* ScreenshotOverlay._show_flash
show_flash(w, o, text) ==
    [w EXCEPT !.s.flash_text = Some(text),
              !.cron = cron_after(w.cron, o, "flash", FlashDelay)]

\* A _get_region that flips a negative width without moving the origin.
get_region_keeps_origin(hl_region) ==
    IF IsNone(hl_region) THEN None
    ELSE LET hl == The(hl_region)
             width == IF hl.width < 0 THEN hl.width * (-1) ELSE hl.width
             y == IF hl.height < 0 THEN hl.y + hl.height ELSE hl.y
             height == IF hl.height < 0 THEN hl.height * (-1) ELSE hl.height
         IN Some(TalonRect(hl.x, y, width, height))

\* BoxSelectorOverlay._get_region on a stored region (an optional Rect)
get_region(hl_region) ==
    IF IsNone(hl_region) THEN None
    ELSE LET hl == The(hl_region)
             x == IF hl.width < 0 THEN hl.x + hl.width ELSE hl.x
             width == IF hl.width < 0 THEN hl.width * (-1) ELSE hl.width
             y == IF hl.height < 0 THEN hl.y + hl.height ELSE hl.y
             height == IF hl.height < 0 THEN hl.height * (-1) ELSE hl.height
         IN Some(TalonRect(x, y, width, height))

\* BoxSelectorOverlay._get_region_centre, in half pixels (x + width / 2 doubled)
get_region_centre2(hl_region) ==
    LET hl == The(hl_region)
    IN [x |-> 2 * hl.x + hl.width, y |-> 2 * hl.y + hl.height]

\* Rows of np.array(self.image)[ypos:ypos + height, xpos:xpos + width]:
\* a slice is cut to the MaxY rows (MaxX columns) the frame has.
SliceLen(start, stop, n) ==
    LET lo == Min(Max(start, 0), n)
        hi == Min(Max(stop, 0), n)
    IN Max(0, hi - lo)

\* BoxSelectorOverlay._get_cropped_image: None, or the crop, named by the
\* region it was cut from and the rows and columns it holds.
get_cropped_image(hl_region) ==
    IF IsNone(hl_region) THEN None
    ELSE LET region == The(get_region(hl_region))
             rows == SliceLen(region.y, region.y + region.height, MaxY)
             cols == SliceLen(region.x, region.x + region.width, MaxX)
         IN IF rows = 0 THEN None
            ELSE Some([x |-> region.x, y |-> region.y, rows |-> rows, cols |-> cols])
\* locate.locate_in_image(self.image, cropped_img, threshold=0.9): what the
\* search may return for the crop of `region`, depending on the frame's
\* content: nothing, the region alone, the region and another occurrence in
\* either order, or more than MaxShownMatches rectangles.
OtherOccurrence(region) == [region EXCEPT !.x = (region.x + 1) % (MaxX + 1)]

LocateResults(region) ==
    { << >>, << region >>, << region, OtherOccurrence(region) >>,
      << OtherOccurrence(region), region >>,
      [i \in 1..(MaxShownMatches + 1) |-> region] }

\* How the worker thread of one _selection_settled(True) goes: `late` when
\* th.join(timeout=1) returns with the worker still running, and the list
\* _find_matches stores when it is done.
SearchOutcomes(hl_region) ==
    IF IsNone(get_cropped_image(hl_region))
    THEN { [late |-> FALSE, rects |-> << >>] }
    ELSE { [late |-> l, rects |-> r] :
             l \in BOOLEAN, r \in LocateResults(The(get_region(hl_region))) }

\* Whether the search outcome makes _selection_settled show a flash message.
Flashes(out) == out.late \/ Len(out.rects) > MaxShownMatches

\* The notification is counted for the current burst of nudges.
CountSettled(w, finished_selection) ==
    IF finished_selection /\ w.burst.len > 0
    THEN [w EXCEPT !.burst.settled = Min(2, w.burst.settled + 1)]
    ELSE w

\* ImageSelectorOverlay._selection_settled
image_selection_settled(w, o, finished_selection, out) ==
    IF ~finished_selection
    THEN [w EXCEPT !.s.result_rects = << >>, !.search = "none"]
    ELSE IF out.late
    THEN \* the join took JoinTimeout seconds; the worker is still running
         LET waited == [w EXCEPT !.cron = Elapse(w.cron, JoinTimeout),
                                 !.burst = ElapseBurst(w.burst, JoinTimeout),
                                 !.late = w.late \cup { out.rects }]
             flashed == show_flash(waited, o, "Too many matches, not showing any of them")
         IN [flashed EXCEPT !.s.result_rects = << >>, !.search = "discarded"]
    ELSE LET found == [w EXCEPT !.s.result_rects = out.rects]
         IN IF Len(out.rects) > MaxShownMatches
            THEN [show_flash(found, o, "Too many matches, not showing any of them")
                    EXCEPT !.s.result_rects = << >>, !.search = "discarded"]
            ELSE [found EXCEPT !.search = "kept"]

\* self._selection_settled(finished_selection), by the overlay's class:
\* BoxSelectorOverlay._selection_settled does nothing.
selection_settled(w, o, finished_selection, out) ==
    LET counted == CountSettled(w, finished_selection)
    IN IF w.s.kind = "image"
       THEN image_selection_settled(counted, o, finished_selection, out)
       ELSE counted

\* Guard of the model's bounds: the handler may arm its jobs and workers.
SettleFits(w, o, out) ==
    /\ w.s.kind = "image" /\ Flashes(out) =>
         /\ HasFreeId(w.cron)
         /\ Cardinality({ j \in w.cron : j.o = o /\ j.kind = "flash" }) < MaxFlash
    /\ w.s.kind = "image" /\ out.late => Cardinality(w.late) < MaxLate

\* The index ImageSelectorOverlay._calculate_result computes: the last
\* position (0-based) of the normalised region in result_rects, else 0.
MatchIndex(result_rects, region) ==
    LET hits == { i \in 1..Len(result_rects) : result_rects[i] = region }
    IN IF hits = {} THEN 0
       ELSE (CHOOSE i \in hits : \A k \in hits : k <= i) - 1

\* ImageSelectorOverlay._calculate_result; offset is in half pixels.
image_calculate_result(s) ==
    IF ~IsNone(s.hl_region)
    THEN LET centre == get_region_centre2(s.hl_region)
             offset == IF ~IsNone(s.offset_coord)
                       THEN Some([x |-> 2 * The(s.offset_coord).x - centre.x,
                                  y |-> 2 * The(s.offset_coord).y - centre.y])
                       ELSE None
         IN Some([ image |-> get_cropped_image(s.hl_region),
                   offset |-> offset,
                   index |-> MatchIndex(s.result_rects, The(get_region(s.hl_region))) ])
    ELSE None

\* BoxSelectorOverlay._calculate_result
box_calculate_result(s) == s.hl_region

\* self._calculate_result(), by the overlay's class
calculate_result(s) ==
    IF s.kind = "image" THEN image_calculate_result(s) ELSE box_calculate_result(s)
(* ----------------------------- key events ----------------------------- *)

EscapeKeys == { "Escape", "esc" }
EnterKeys == { "Return", "return", "Enter" }

\* The keymap of BoxSelectorOverlay._key_event: key -> [position, scale, direction]
KeymapKeys ==
    { "ArrowLeft", "ArrowRight", "ArrowUp", "ArrowDown",
      "Left", "Right", "Up", "Down", "left", "right", "up", "down" }

keymap(key) ==
    IF key \in { "ArrowLeft", "Left", "left" }
    THEN [position |-> "x", scale |-> "width", direction |-> "-"]
    ELSE IF key \in { "ArrowRight", "Right", "right" }
    THEN [position |-> "x", scale |-> "width", direction |-> "+"]
    ELSE IF key \in { "ArrowUp", "Up", "up" }
    THEN [position |-> "y", scale |-> "height", direction |-> "-"]
    ELSE [position |-> "y", scale |-> "height", direction |-> "+"]

\* A _key_event whose Enter branch reports no result, as the Escape branch does.
base_key_event_enter_cancels(w, evt) ==
    IF evt.down THEN w
    ELSE IF evt.key \in EscapeKeys \/ evt.key \in EnterKeys
    THEN result_handler(destroy(w), None)
    ELSE w

\* ScreenshotOverlay._key_event
base_key_event(w, evt) ==
    IF evt.down THEN w
    ELSE LET escaped == IF evt.key \in EscapeKeys
                        THEN result_handler(destroy(w), None)
                        ELSE w
         IN IF evt.key \in EnterKeys
            THEN LET closed == destroy(escaped)
                 IN result_handler(closed, calculate_result(closed.s))
            ELSE escaped

\* The keymap loop body up to the bounds check: move or resize the region.
\* setattr on self.hl_region changes the stored Rect itself.
NudgeRegion(hl, args, mods) ==
    LET magnitude0 == IF "shift" \in mods THEN ShiftMagnitude ELSE 1
        magnitude == IF args.direction = "-" THEN (-1) * magnitude0 ELSE magnitude0
    IN IF "ctrl" \in mods
       THEN LET new_val == hl[args.scale] + magnitude
            IN [hl EXCEPT ![args.scale] = IF new_val >= 0 THEN new_val ELSE 1]
       ELSE LET new_val == hl[args.position] + magnitude
            IN [hl EXCEPT ![args.position] = IF new_val >= 0 THEN new_val ELSE 0]

\* One round of "Ensure the region is still within the bounds of the canvas".
ClampAxis(hl, can_rect, position, scale) ==
    LET min_pos == can_rect[position]
        max_pos == min_pos + can_rect[scale]
        curr_extent == hl[position] + hl[scale]
        pos1 == IF hl[position] < min_pos THEN min_pos ELSE hl[position]
        pos2 == IF pos1 > max_pos THEN max_pos - 1 ELSE pos1
        scale2 == IF curr_extent > max_pos THEN max_pos - pos2 ELSE hl[scale]
    IN [hl EXCEPT ![position] = pos2, ![scale] = scale2]

ClampRegion(hl, can_rect) ==
    ClampAxis(ClampAxis(hl, can_rect, "x", "width"), can_rect, "y", "height")

\* A _reset_settled_countdown that arms the new job without cancelling the old one.
reset_settled_countdown_no_cancel(w, o) ==
    [w EXCEPT !.cron = cron_after(w.cron, o, "settle", SettleDelay),
              !.s.settled_countdown_timer = Some(NextId(w.cron))]

\* BoxSelectorOverlay._reset_settled_countdown: cancel the pending job, arm a new one.
reset_settled_countdown(w, o) ==
    LET kept == IF ~IsNone(w.s.settled_countdown_timer)
                THEN cron_cancel(w.cron, The(w.s.settled_countdown_timer))
                ELSE w.cron
    IN [w EXCEPT !.cron = cron_after(kept, o, "settle", SettleDelay),
                 !.s.settled_countdown_timer = Some(NextId(kept))]

\* A nudge opens a burst when no settle job is pending, else it continues one.
CountNudge(w) ==
    IF IsNone(w.s.settled_countdown_timer)
    THEN [w EXCEPT !.burst = [len |-> 1, settled |-> 0, mouse |-> FALSE, since |-> 0]]
    ELSE [w EXCEPT !.burst.len = Min(2, w.burst.len + 1), !.burst.since = 0]

\* BoxSelectorOverlay._key_event
key_event(w, o, evt) ==
    LET based == base_key_event(w, evt)
    IN IF evt.down \/ IsNone(based.s.hl_region) THEN based
       ELSE IF evt.key \notin KeymapKeys THEN based
       ELSE LET hl == ClampRegion(NudgeRegion(The(based.s.hl_region), keymap(evt.key), evt.mods),
                                  based.s.can_rect)
                moved == [CountNudge(based) EXCEPT !.s.hl_region = Some(hl)]
                cleared == selection_settled(moved, o, FALSE, [late |-> FALSE, rects |-> << >>])
            IN reset_settled_countdown(cleared, o)

\* Guard of the model's bounds: a nudge needs a job id for its settle job.
KeyFits(w, evt) ==
    (~evt.down /\ ~IsNone(w.s.hl_region) /\ evt.key \in KeymapKeys) => HasFreeId(w.cron)

(* ---------------------------- mouse events ---------------------------- *)

\* ScreenshotOverlay._mouse_event
base_mouse_event(w, evt) ==
    IF ~IsNone(w.s.text_rect) /\ RectContains(The(w.s.text_rect), evt.gpos)
    THEN [w EXCEPT !.s.text_position = IF w.s.text_position = "bottom" THEN "top" ELSE "bottom"]
    ELSE w

\* What a primary-button event leaves of the observation of a press on the
\* help panel: a press inside the panel's rectangle records the overlay as
\* it is before the handler runs, any other press and a release clear it.
ObservePress(w, evt) ==
    IF evt.button # 0 \/ evt.event = "mousemove" THEN w.press
    ELSE IF evt.event = "mousedown" /\ ~IsNone(w.s.text_rect)
            /\ RectContains(The(w.s.text_rect), evt.gpos)
    THEN Some([ rect |-> The(w.s.text_rect), text_position |-> w.s.text_position,
                hl_region |-> w.s.hl_region, is_selecting |-> w.s.is_selecting,
                offset_coord |-> w.s.offset_coord ])
    ELSE None

\* BoxSelectorOverlay._mouse_event
box_mouse_event(w, o, evt, out) ==
    LET based == [base_mouse_event(w, evt) EXCEPT !.burst.mouse = w.burst.len > 0,
                                                  !.press = ObservePress(w, evt)]
    IN IF evt.event = "mousedown" /\ evt.button = 0
       THEN selection_settled(
                [based EXCEPT !.s.hl_region = Some(TalonRect(evt.gpos.x, evt.gpos.y, 0, 0)),
                              !.s.is_selecting = TRUE],
                o, FALSE, out)
       ELSE IF evt.event = "mousemove" /\ based.s.is_selecting /\ ~IsNone(based.s.hl_region)
       THEN LET hl == The(based.s.hl_region)
            IN [based EXCEPT !.s.hl_region =
                    Some(TalonRect(hl.x, hl.y, evt.gpos.x - hl.x, evt.gpos.y - hl.y))]
       ELSE IF evt.event = "mouseup" /\ evt.button = 0
       THEN selection_settled([based EXCEPT !.s.is_selecting = FALSE], o, TRUE, out)
       ELSE based

\* ImageSelectorOverlay._mouse_event
image_mouse_event(w, o, evt, out) ==
    LET boxed == box_mouse_event(w, o, evt, out)
        reset == IF evt.event = "mousedown" /\ evt.button = 0
                 THEN [boxed EXCEPT !.s.offset_coord = None]
                 ELSE boxed
    IN IF evt.event = "mouseup" /\ evt.button = 1
       THEN [reset EXCEPT !.s.offset_coord = Some(evt.gpos)]
       ELSE reset

\* self._mouse_event(evt), by the overlay's class
mouse_event(w, o, evt, out) ==
    IF w.s.kind = "image" THEN image_mouse_event(w, o, evt, out)
    ELSE box_mouse_event(w, o, evt, out)

\* Whether this mouse event runs _selection_settled(True).
SettlesOnMouse(evt) == evt.event = "mouseup" /\ evt.button = 0

(* ------------------------- focus, timers, draw ------------------------ *)

\* ScreenshotOverlay._focus_event; the canvas's focused flag follows the event.
focus_event(w, focussed) ==
    LET seen == [w EXCEPT !.s.focused = focussed]
    IN IF ~focussed /\ seen.s.unfocus_destroy_enabled
       THEN result_handler(destroy(seen), None)
       ELSE seen

\* A _set_unfocus_destroy_enabled that checks the focus but never sets the flag.
set_unfocus_destroy_enabled_never(w) ==
    IF ~w.s.focused THEN destroy(w) ELSE w

\* _set_unfocus_destroy_enabled, the job armed by ScreenshotOverlay.__init__
set_unfocus_destroy_enabled(w) ==
    IF ~w.s.focused
    THEN destroy(w)
    ELSE [w EXCEPT !.s.unfocus_destroy_enabled = TRUE]

\* clear_flash, the job armed by _show_flash
clear_flash(w) == [w EXCEPT !.s.flash_text = None]

\* An _inner that notifies but leaves the handle of the job that has run.
settled_inner_keeps_handle(w, o, out) == selection_settled(w, o, TRUE, out)

\* _inner, the job armed by _reset_settled_countdown
settled_inner(w, o, out) ==
    [selection_settled(w, o, TRUE, out) EXCEPT !.s.settled_countdown_timer = None]
\* The help panel's rectangle as _draw_text lays it out: a band PanelRows
\* high across the canvas, at its top or its bottom edge.
PanelRows == 1

TextRect(text_position, can_rect) ==
    IF text_position = "bottom"
    THEN TalonRect(can_rect.x, can_rect.y + can_rect.height - PanelRows,
                   can_rect.width, PanelRows)
    ELSE TalonRect(can_rect.x, can_rect.y, can_rect.width, PanelRows)

\* ScreenshotOverlay._draw_wrapper (and _draw, _draw_text for what they store).
\* The 200ms calibration job is due `due` steps of one second from now.
draw_wrapper(w, o, due) ==
    IF w.s.calculate_rect_state \in { "initial", "drawn" }
    THEN LET armed == IF w.s.calculate_rect_state = "initial"
                      THEN [w EXCEPT !.cron = cron_after(w.cron, o, "calculate_rect", due)]
                      ELSE w
         IN [armed EXCEPT !.s.calculate_rect_state = "drawn"]
    ELSE [w EXCEPT !.s.text_rect = Some(TextRect(w.s.text_position, w.s.can_rect))]

\* What the calibration capture shows: the platform is Windows, the sentinel
\* colour fills the rectangle `rect`, or no pixel has the sentinel colour.
InsetRect == TalonRect(0, 1, MaxX, MaxY - 1)
CaptureOutcomes ==
    { [case |-> "windows", rect |-> screen_rect],
      [case |-> "found", rect |-> screen_rect],
      [case |-> "found", rect |-> InsetRect],
      [case |-> "absent", rect |-> screen_rect] }

\* ScreenshotOverlay._calculate_rect_handler. With no sentinel pixel
\* _calculate_bounds evaluates None + 1 and the job ends with a TypeError,
\* leaving the fields as they are.
calculate_rect_handler(w, capture) ==
    IF capture.case = "windows"
    THEN [w EXCEPT !.s.calculate_rect_state = "normal"]
    ELSE IF capture.case = "found"
    THEN [w EXCEPT !.s.can_rect = capture.rect, !.s.calculate_rect_state = "normal"]
    ELSE w

(* ------------------------------ actions ------------------------------- *)

NoSearch == [late |-> FALSE, rects |-> << >>]

Keys == { "Escape", "esc", "Return", "Enter", "Left", "Right", "Up", "Down",
          "ArrowLeft", "down", "a" }
Mods == SUBSET { "shift", "ctrl" }
KeyEvents == { [down |-> d, key |-> k, mods |-> m] : d \in BOOLEAN, k \in Keys, m \in Mods }
MouseEvents ==
    { [event |-> e, button |-> b, gpos |-> p] :
        e \in { "mousedown", "mousemove", "mouseup" }, b \in { 0, 1 }, p \in Points }

\* A key event delivered to the canvas of overlay o.
KeyEvent(o, evt) ==
    /\ ov[o].phase = "open"
    /\ KeyFits(World(o), evt)
    /\ Commit(o, key_event(World(o), o, evt))

\* A mouse event delivered to the canvas of overlay o; `out` is how the
\* search goes that a primary-button release starts.
MouseEvent(o, evt, out) ==
    /\ ov[o].phase = "open"
    /\ IF SettlesOnMouse(evt)
       THEN out \in SearchOutcomes(ov[o].hl_region) /\ SettleFits(World(o), o, out)
       ELSE out = NoSearch
    /\ Commit(o, mouse_event(World(o), o, evt, out))

\* A focus event delivered to the canvas of overlay o.
FocusEvent(o, focussed) ==
    /\ ov[o].phase = "open"
    /\ Commit(o, focus_event(World(o), focussed))

\* The canvas of overlay o is asked to draw.
Draw(o) ==
    /\ ov[o].phase = "open"
    /\ ov[o].calculate_rect_state = "initial" => HasFreeId(cron)
    /\ \E due \in (IF ov[o].calculate_rect_state = "initial" THEN { 0, 1 } ELSE { 0 }) :
         Commit(o, draw_wrapper(World(o), o, due))

\* The world a due job's callback starts from: the job is no longer pending.
Fired(j) == [World(j.o) EXCEPT !.cron = cron \ { j }]

UnfocusTimer(j) ==
    /\ j.kind = "unfocus" /\ j.left = 0
    /\ Commit(j.o, set_unfocus_destroy_enabled(Fired(j)))

FlashTimer(j) ==
    /\ j.kind = "flash" /\ j.left = 0
    /\ Commit(j.o, clear_flash(Fired(j)))

SettleTimer(j, out) ==
    /\ j.kind = "settle" /\ j.left = 0
    /\ out \in SearchOutcomes(ov[j.o].hl_region)
    /\ SettleFits(Fired(j), j.o, out)
    /\ Commit(j.o, settled_inner(Fired(j), j.o, out))

CalculateRectTimer(j, capture) ==
    /\ j.kind = "calculate_rect" /\ j.left = 0
    /\ Commit(j.o, calculate_rect_handler(Fired(j), capture))

\* A worker that outlived its join stores its result (ImageSelectorOverlay._find_matches).
WorkerDone(o) ==
    \E rects \in late[o] :
        Commit(o, [World(o) EXCEPT !.s.result_rects = rects, !.late = late[o] \ { rects }])

\* One second passes; a due job runs first.
Tick ==
    /\ \A j \in cron : j.left > 0
    /\ cron' = Elapse(cron, 1)
    /\ burst' = [o \in Ids |-> ElapseBurst(burst[o], 1)]
    /\ UNCHANGED << ov, results, late, search, press, normVars, mouseVars, markerVars >>

\* CommandWizardActions.command_wizard_show: a new ImageSelectorOverlay,
\* whose constructor arms the unfocus job.
FreeSlots == { o \in Ids : ov[o].phase = "absent" }
command_wizard_show ==
    /\ FreeSlots # {} /\ HasFreeId(cron)
    /\ LET o == CHOOSE i \in FreeSlots : \A k \in FreeSlots : i <= k
       IN /\ ov' = [ov EXCEPT ![o] = NewOverlay("image")]
          /\ cron' = cron_after(cron, o, "unfocus", GraceDelay)
    /\ UNCHANGED << results, late, burst, search, press, normVars, mouseVars, markerVars >>

(* --------------------------- specifications --------------------------- *)

IdleNorm == hl_in = None /\ region_out = None /\ region_again = None
IdleMouse ==
    /\ mouse_pos = [x |-> 0, y |-> 0] /\ located = << >> /\ call = None
    /\ match_rect = None /\ outcome = "idle"
IdleMarker ==
    /\ marker_ui = None /\ ctx_tags = {}
    /\ marker_uis = [i \in MarkerIds |-> NoMarkerUi]

\* One overlay, of either selector class, right after its construction.
Init ==
    /\ \E kind \in { "box", "image" } :
         ov = [o \in Ids |-> IF o = 1 THEN NewOverlay(kind) ELSE NoOverlay]
    /\ cron = { Job(1, 1, "unfocus", GraceDelay) }
    /\ results = [o \in Ids |-> << >>]
    /\ late = [o \in Ids |-> {}]
    /\ burst = [o \in Ids |-> NoBurst]
    /\ search = [o \in Ids |-> "none"]
    /\ press = [o \in Ids |-> None]
    /\ IdleNorm /\ IdleMouse /\ IdleMarker

\* Every way the search may go that this mouse event (the settle job) starts.
MouseSearches(o, evt) ==
    IF SettlesOnMouse(evt) THEN SearchOutcomes(ov[o].hl_region) ELSE { NoSearch }
TimerSearches(j) == SearchOutcomes(ov[j.o].hl_region)

\* Of these, the searches of a frame that answers in time with at most two matches.
Quick(outs) == { out \in outs : ~out.late /\ Len(out.rects) <= 2 }

Corners == { [x |-> 0, y |-> 0], [x |-> MaxX, y |-> MaxY] }

\* Selecting with the mouse and confirming: every mouse event, the keys that
\* are not nudges, quick searches; no time passes.
SelectKeyEvents == { evt \in KeyEvents : evt.key \notin KeymapKeys /\ evt.mods = {} }

NextSelect ==
    \/ \E evt \in SelectKeyEvents : KeyEvent(1, evt)
    \/ \E evt \in MouseEvents : \E out \in Quick(MouseSearches(1, evt)) : MouseEvent(1, evt, out)

SpecSelect == Init /\ [][NextSelect]_vars

\* Nudging a region dragged between two corners, with time passing: every
\* key, the cron jobs, quick searches.
NudgeMouseEvents == { evt \in MouseEvents : evt.button = 0 /\ evt.gpos \in Corners }

NextNudge ==
    \/ \E evt \in KeyEvents : KeyEvent(1, evt)
    \/ \E evt \in NudgeMouseEvents : \E out \in Quick(MouseSearches(1, evt)) : MouseEvent(1, evt, out)
    \/ \E j \in cron : UnfocusTimer(j)
    \/ \E j \in cron : \E out \in Quick(TimerSearches(j)) : SettleTimer(j, out)
    \/ Tick

SpecNudge == Init /\ [][NextNudge]_vars

\* The overlay's life: keys, focus changes, drawing and calibration, the
\* pointer moving over the canvas, the unfocus job, time.
FocusMouseEvents == { evt \in MouseEvents : evt.event = "mousemove" /\ evt.button = 0 }

NextFocus ==
    \/ \E evt \in SelectKeyEvents : KeyEvent(1, evt)
    \/ \E evt \in FocusMouseEvents : MouseEvent(1, evt, NoSearch)
    \/ \E focussed \in BOOLEAN : FocusEvent(1, focussed)
    \/ Draw(1)
    \/ \E j \in cron : UnfocusTimer(j)
    \/ \E j \in cron, capture \in CaptureOutcomes : CalculateRectTimer(j, capture)
    \/ Tick

SpecFocus == Init /\ [][NextFocus]_vars

\* The command wizard opened repeatedly: no overlay at first.
InitWizard ==
    /\ ov = [o \in Ids |-> NoOverlay]
    /\ cron = {}
    /\ results = [o \in Ids |-> << >>]
    /\ late = [o \in Ids |-> {}]
    /\ burst = [o \in Ids |-> NoBurst]
    /\ search = [o \in Ids |-> "none"]
    /\ press = [o \in Ids |-> None]
    /\ IdleNorm /\ IdleMouse /\ IdleMarker

NextWizard ==
    \/ command_wizard_show
    \/ \E o \in Ids, evt \in SelectKeyEvents : KeyEvent(o, evt)
    \/ \E o \in Ids, focussed \in BOOLEAN : FocusEvent(o, focussed)
    \/ \E j \in cron : UnfocusTimer(j)
    \/ Tick

SpecWizard == InitWizard /\ [][NextWizard]_vars

\* Searching from the Image Selector: drags between two corners whose
\* release starts a search that may be quick, late or crowded; the flash
\* job, workers that outlive their join, Enter and Escape, time.
NextSearch ==
    \/ \E evt \in SelectKeyEvents : KeyEvent(1, evt)
    \/ \E evt \in NudgeMouseEvents : \E out \in MouseSearches(1, evt) : MouseEvent(1, evt, out)
    \/ \E j \in cron : UnfocusTimer(j)
    \/ \E j \in cron : FlashTimer(j)
    \/ WorkerDone(1)
    \/ Tick

SpecSearch == Init /\ [][NextSearch]_vars

\* Clicking on the help panel: drawing and calibration, every
\* primary-button mouse event, quick searches, time.
PanelMouseEvents == { evt \in MouseEvents : evt.button = 0 }

NextPanel ==
    \/ Draw(1)
    \/ \E j \in cron, capture \in CaptureOutcomes : CalculateRectTimer(j, capture)
    \/ \E evt \in PanelMouseEvents : \E out \in Quick(MouseSearches(1, evt)) : MouseEvent(1, evt, out)
    \/ \E j \in cron : UnfocusTimer(j)
    \/ Tick

SpecPanel == Init /\ [][NextPanel]_vars

(* ------------------------- region normalisation ----------------------- *)

\* Coordinates of the stored regions _get_region is asked about.
NormMax == 2

StoredRegions ==
    { TalonRect(x, y, width, height) :
        x \in (-NormMax)..NormMax, y \in (-NormMax)..NormMax,
        width \in (-NormMax)..NormMax, height \in (-NormMax)..NormMax }

InitNorm ==
    /\ ov = [o \in Ids |-> NoOverlay]
    /\ cron = {}
    /\ results = [o \in Ids |-> << >>]
    /\ late = [o \in Ids |-> {}]
    /\ burst = [o \in Ids |-> NoBurst]
    /\ search = [o \in Ids |-> "none"]
    /\ press = [o \in Ids |-> None]
    /\ hl_in \in { Some(r) : r \in StoredRegions }
    /\ region_out = None /\ region_again = None
    /\ IdleMouse /\ IdleMarker

\* A consumer calls self._get_region(); the method only reads self.hl_region.
\* region_again is the result of the call on an overlay that stores the
\* first result as its region.
GetRegion ==
    /\ region_out = None
    /\ region_out' = get_region(hl_in)
    /\ region_again' = get_region(get_region(hl_in))
    /\ UNCHANGED << hl_in, ovVars, mouseVars, markerVars >>

NextNorm == GetRegion

SpecNorm == InitNorm /\ [][NextNorm]_vars

(* -------------------------- pointer placement ------------------------- *)

\* Top-left corners of the matches on the screen, and how many there are.
MatchMaxX == 1
MatchMaxY == 1
MaxMatches == 2
\* Template sizes and the offsets of a call.
MaxTemplate == 2
MaxOffset == 1

MatchCorners == { [x |-> px, y |-> py] : px \in 0..MatchMaxX, py \in 0..MatchMaxY }

\* Lists of up to MaxMatches distinct corners, in any order.
CornerLists ==
    UNION { { l \in [1..n -> MatchCorners] : \A i, k \in 1..n : i # k => l[i] # l[k] } :
              n \in 0..MaxMatches }

\* locate.locate(template_file, rect=rect): one Rect of the template's size per corner.
LocateLists ==
    { [i \in 1..Len(l) |-> TalonRect(l[i].x, l[i].y, width, height)] :
        l \in CornerLists, width \in 1..MaxTemplate, height \in 1..MaxTemplate }

\* math.ceil(n / 2) and n // 2 for an integer n
CeilHalf(n) == (n + 1) \div 2
FloorHalf(n) == n \div 2

\* A screen crowded with the template: a row of MaxShownMatches + 1 matches.
CrowdedLists ==
    { [i \in 1..(MaxShownMatches + 1) |-> TalonRect(i - 1, 0, width, height)] :
        width \in 1..MaxTemplate, height \in 1..MaxTemplate }

\* key=lambda m: (m.x, m.y)
SortKeyLeq(a, b) == a.x < b.x \/ (a.x = b.x /\ a.y <= b.y)

\* sorted(matches, key=...): a stable insertion sort
RECURSIVE InsertSorted(_, _)
InsertSorted(m, sorted) ==
    IF sorted = << >> THEN << m >>
    ELSE IF SortKeyLeq(sorted[Len(sorted)], m) THEN Append(sorted, m)
    ELSE Append(InsertSorted(m, SubSeq(sorted, 1, Len(sorted) - 1)), sorted[Len(sorted)])

RECURSIVE SortedMatches(_)
SortedMatches(matches) ==
    IF matches = << >> THEN << >>
    ELSE InsertSorted(matches[Len(matches)],
                      SortedMatches(SubSeq(matches, 1, Len(matches) - 1)))

\* [match for match in sorted_matches if ...], kept in the list's order
RECURSIVE FilterSeq(_, _, _)
FilterSeq(seq, xnorm, ynorm) ==
    IF seq = << >> THEN << >>
    ELSE LET match == Head(seq)
             rest == FilterSeq(Tail(seq), xnorm, ynorm)
         IN IF (match.y = ynorm /\ match.x > xnorm) \/ match.y > ynorm
            THEN << match >> \o rest
            ELSE rest

\* xnorm and ynorm of mouse_helper_move_image_relative: math.ceil of the
\* pointer position less the offset less half the first match's size.
NormPoint(pos, xoffset, yoffset, first) ==
    [ x |-> pos.x - xoffset - FloorHalf(first.width),
      y |-> pos.y - yoffset - FloorHalf(first.height) ]

\* The part of mouse_helper_move_image_relative that picks match_rect:
\* [how |-> "moved", match |-> the match], or "returned" (an early return),
\* or "raised" (sorted_matches[disambiguator] with an index below -len).
ChooseMatch(matches, d, pos, xoffset, yoffset) ==
    LET sorted_matches == SortedMatches(matches)
        n == Len(sorted_matches)
    IN IF n = 0 THEN [how |-> "returned", match |-> None]
       ELSE IF d.kind \in { "mouse", "mouse_cycle" }
       THEN LET norm == NormPoint(pos, xoffset, yoffset, sorted_matches[1])
                filtered_matches == FilterSeq(sorted_matches, norm.x, norm.y)
            IN IF Len(filtered_matches) > 0
               THEN [how |-> "moved", match |-> Some(filtered_matches[1])]
               ELSE IF d.kind = "mouse_cycle"
               THEN [how |-> "moved", match |-> Some(sorted_matches[1])]
               ELSE [how |-> "returned", match |-> None]
       ELSE IF Len(matches) <= d.i THEN [how |-> "returned", match |-> None]
       ELSE IF d.i >= 0 THEN [how |-> "moved", match |-> Some(sorted_matches[d.i + 1])]
       ELSE IF d.i >= -n THEN [how |-> "moved", match |-> Some(sorted_matches[n + d.i + 1])]
       ELSE [how |-> "raised", match |-> None]

\* The argument of actions.mouse_move at the end of the method.
MoveTarget(rect, m, xoffset, yoffset) ==
    [ x |-> rect.x + m.x + xoffset + CeilHalf(m.width),
      y |-> rect.y + m.y + yoffset + CeilHalf(m.height) ]

Disambiguators ==
    { [kind |-> "index", i |-> i] : i \in (-(MaxMatches + 1))..(MaxMatches + 1) }
      \cup { [kind |-> "mouse", i |-> 0], [kind |-> "mouse_cycle", i |-> 0] }

\* MouseActions.mouse_helper_move_image_relative with region="screen" on a
\* screen whose rectangle starts at the origin.
mouse_helper_move_image_relative(d, xoffset, yoffset) ==
    LET chosen == ChooseMatch(located, d, mouse_pos, xoffset, yoffset)
    IN /\ call' = Some([disambiguator |-> d, xoffset |-> xoffset, yoffset |-> yoffset,
                        mouse |-> mouse_pos])
       /\ match_rect' = chosen.match
       /\ outcome' = chosen.how
       /\ mouse_pos' = IF chosen.how = "moved"
                       THEN MoveTarget(screen_rect, The(chosen.match), xoffset, yoffset)
                       ELSE mouse_pos
       /\ UNCHANGED << located, ovVars, normVars, markerVars >>

InitPointer ==
    /\ ov = [o \in Ids |-> NoOverlay]
    /\ cron = {}
    /\ results = [o \in Ids |-> << >>]
    /\ late = [o \in Ids |-> {}]
    /\ burst = [o \in Ids |-> NoBurst]
    /\ search = [o \in Ids |-> "none"]
    /\ press = [o \in Ids |-> None]
    /\ IdleNorm /\ IdleMarker
    /\ located \in LocateLists
    /\ mouse_pos \in { [x |-> 0, y |-> 0] }
    /\ call = None /\ match_rect = None /\ outcome = "idle"

NextPointer ==
    \E d \in Disambiguators, xoffset \in 0..MaxOffset, yoffset \in 0..MaxOffset :
        mouse_helper_move_image_relative(d, xoffset, yoffset)

SpecPointer == InitPointer /\ [][NextPointer]_vars

\* The same calls on a screen crowded with the template.
InitCrowded ==
    /\ ov = [o \in Ids |-> NoOverlay]
    /\ cron = {}
    /\ results = [o \in Ids |-> << >>]
    /\ late = [o \in Ids |-> {}]
    /\ burst = [o \in Ids |-> NoBurst]
    /\ search = [o \in Ids |-> "none"]
    /\ press = [o \in Ids |-> None]
    /\ IdleNorm /\ IdleMarker
    /\ located \in CrowdedLists
    /\ mouse_pos \in { [x |-> 0, y |-> 0] }
    /\ call = None /\ match_rect = None /\ outcome = "idle"

SpecCrowded == InitCrowded /\ [][NextPointer]_vars
(* ------------------------------ marker UI ----------------------------- *)

\* Markers per call of marker_ui_show.
MaxMarkers == 2

\* The rectangles handed to marker_ui_show: of even size, so that the centre
\* rect.x + rect.width / 2 is a whole number.
MarkerRects == { TalonRect(0, 0, 2, 2), TalonRect(2, 0, 2, 2) }
RectLists == UNION { [1..n -> MarkerRects] : n \in 0..MaxMarkers }

\* setting_labels.get().split(" "): the first labels of the default setting
setting_labels == << "a", "b", "c", "d" >>
\* The labels a caller may ask for; "z" is on no marker.
AskedLabels == { "a", "b", "z" }

\* [MarkerUi.Marker(rect, label) for rect, label in zip(rects, labels)]
ZipMarkers(rects, labels) ==
    [i \in 1..Min(Len(rects), Len(labels)) |-> [rect |-> rects[i], label |-> labels[i]]]

\* marker_ui.destroy() on the instance the global refers to, if any
DestroyCurrent ==
    IF ~IsNone(marker_ui)
    THEN [marker_uis EXCEPT ![The(marker_ui)].state = "destroyed"]
    ELSE marker_uis

FreeMarkerIds == { i \in MarkerIds : marker_uis[i].state = "absent" }

\* A marker_ui_show that replaces the global without destroying the instance
\* it referred to.
marker_ui_show_keeps_previous(rects) ==
    /\ FreeMarkerIds # {}
    /\ LET new == CHOOSE i \in FreeMarkerIds : \A k \in FreeMarkerIds : i <= k
       IN /\ marker_uis' = [marker_uis EXCEPT ![new] =
                              [state |-> "shown", markers |-> ZipMarkers(rects, setting_labels)]]
          /\ marker_ui' = Some(new)
    /\ ctx_tags' = { "user.marker_ui_showing" }
    /\ UNCHANGED << ovVars, normVars, mouseVars >>

\* MarkerUiActions.marker_ui_show
marker_ui_show(rects) ==
    /\ FreeMarkerIds # {}
    /\ LET new == CHOOSE i \in FreeMarkerIds : \A k \in FreeMarkerIds : i <= k
       IN /\ marker_uis' = [DestroyCurrent EXCEPT ![new] =
                              [state |-> "shown", markers |-> ZipMarkers(rects, setting_labels)]]
          /\ marker_ui' = Some(new)
    /\ ctx_tags' = { "user.marker_ui_showing" }
    /\ UNCHANGED << ovVars, normVars, mouseVars >>

\* A marker_ui_hide that destroys the instance and forgets it but leaves the tag.
marker_ui_hide_keeps_tags ==
    /\ marker_uis' = DestroyCurrent
    /\ marker_ui' = None
    /\ UNCHANGED << ctx_tags, ovVars, normVars, mouseVars >>

\* MarkerUiActions.marker_ui_hide
marker_ui_hide ==
    /\ marker_uis' = DestroyCurrent
    /\ marker_ui' = None
    /\ ctx_tags' = {}
    /\ UNCHANGED << ovVars, normVars, mouseVars >>

\* MarkerUi.find_rect(label): the rectangle of the first marker with that
\* label, or None.
find_rect(markers, label) ==
    LET hits == { i \in 1..Len(markers) : markers[i].label = label }
    IN IF hits = {} THEN None
       ELSE Some(markers[CHOOSE i \in hits : \A k \in hits : i <= k].rect)

\* MarkerUiActions.marker_ui_mouse_move
marker_ui_mouse_move(label) ==
    /\ IF IsNone(marker_ui) THEN UNCHANGED mouse_pos
       ELSE LET rect == find_rect(marker_uis[The(marker_ui)].markers, label)
            IN IF IsNone(rect) THEN UNCHANGED mouse_pos
               ELSE mouse_pos' = [x |-> The(rect).x + The(rect).width \div 2,
                                  y |-> The(rect).y + The(rect).height \div 2]
    /\ UNCHANGED << located, call, match_rect, outcome, ovVars, normVars, markerVars >>

InitMarker ==
    /\ ov = [o \in Ids |-> NoOverlay]
    /\ cron = {}
    /\ results = [o \in Ids |-> << >>]
    /\ late = [o \in Ids |-> {}]
    /\ burst = [o \in Ids |-> NoBurst]
    /\ search = [o \in Ids |-> "none"]
    /\ press = [o \in Ids |-> None]
    /\ IdleNorm /\ IdleMouse /\ IdleMarker

NextMarker ==
    \/ \E rects \in RectLists : marker_ui_show(rects)
    \/ marker_ui_hide
    \/ \E label \in AskedLabels : marker_ui_mouse_move(label)

SpecMarker == InitMarker /\ [][NextMarker]_vars

(* ------------------------------- claims ------------------------------- *)

\* C1: whenever an overlay is closed, by whatever path, its result handler
\* has been called exactly once, and it is never called more than once.
ResultHandlerOncePerClose ==
    \A o \in Ids :
        /\ Len(results[o]) <= 1
        /\ ov[o].phase = "closed" => Len(results[o]) = 1

\* C2: at most one overlay is open at any time.
AtMostOneOverlayOpen ==
    Cardinality({ o \in Ids : ov[o].phase = "open" }) <= 1

\* C3: once an overlay is closed none of its jobs runs any more: its settle
\* handle, match list, flash text and region stay as they were at the close.
ClosedIsQuiescent ==
    [][\A o \in Ids :
         ov[o].phase = "closed" =>
           /\ ov'[o].settled_countdown_timer = ov[o].settled_countdown_timer
           /\ ov'[o].result_rects = ov[o].result_rects
           /\ ov'[o].flash_text = ov[o].flash_text
           /\ ov'[o].hl_region = ov[o].hl_region
           /\ burst'[o].settled = burst[o].settled]_vars

\* C4: an unfocus event delivered while the unfocus job is still pending
\* leaves the overlay open and calls no handler; an unfocus event delivered
\* to an open overlay after the job has run closes it and passes None.
UnfocusAfterGraceCloses ==
    [][\A o \in Ids :
         FocusEvent(o, FALSE) =>
           IF PendingJobs(o, "unfocus") # {}
           THEN ov'[o].phase = "open" /\ results'[o] = results[o]
           ELSE ov'[o].phase = "closed" /\ results'[o] = Append(results[o], None)]_vars

\* C4 witness: the overlay was closed by an unfocus event after the grace period.
UnfocusClosedWitness ==
    /\ ov[1].phase = "closed" /\ ov[1].unfocus_destroy_enabled /\ ~ov[1].focused
    /\ results[1] = << None >>
    /\ PendingJobs(1, "unfocus") = {}

EnterReleases == { evt \in KeyEvents : ~evt.down /\ evt.key \in EnterKeys }

\* C5: releasing Enter on an open overlay closes it and calls the handler
\* once more, with a result that is None exactly when no region is stored.
EnterPassesResult ==
    [][\A evt \in EnterReleases :
         KeyEvent(1, evt) =>
           /\ ov'[1].phase = "closed"
           /\ Len(results'[1]) = Len(results[1]) + 1
           /\ SubSeq(results'[1], 1, Len(results[1])) = results[1]
           /\ IsNone(results'[1][Len(results'[1])]) <=> IsNone(ov[1].hl_region)]_vars

\* C5 witness: an Image Selector closed by Enter with a result that is not None.
EnterResultWitness ==
    /\ ov[1].kind = "image" /\ ov[1].phase = "closed"
    /\ Len(results[1]) = 1 /\ ~IsNone(results[1][1])
    /\ ~IsNone(ov[1].hl_region)

\* C6: the Region the Region Selector passes on Enter is the normalised one.
EnterYieldsNormalizedRegion ==
    (ov[1].kind = "box" /\ ov[1].phase = "closed" /\ Len(results[1]) = 1
       /\ ~IsNone(results[1][1]))
    => results[1][1] = get_region(ov[1].hl_region)

Abs(n) == IF n < 0 THEN -n ELSE n

\* The pixel columns (rows) a region spans from p over len, of either sign.
Span(p, len) == IF len >= 0 THEN p..(p + len - 1) ELSE (p + len)..(p - 1)
Pixels(r) == Span(r.x, r.width) \X Span(r.y, r.height)

\* C7: _get_region is idempotent, its result has width and height >= 0,
\* covers the pixels of the stored region with the same absolute area, and
\* the stored region is not changed by the call.
NormalizationLaw ==
    /\ [](~IsNone(region_out) =>
            LET R == The(hl_in)
                N == The(region_out)
            IN /\ region_again = region_out
               /\ N.width >= 0 /\ N.height >= 0
               /\ Pixels(N) = Pixels(R)
               /\ N.width * N.height = Abs(R.width * R.height))
    /\ [][hl_in' = hl_in]_vars

\* C7 witness: a region dragged up and to the left has been normalised.
NormalizedWitness ==
    /\ ~IsNone(region_out)
    /\ The(hl_in).width < 0 /\ The(hl_in).height < 0
    /\ The(region_out).x < The(hl_in).x

\* C8: in a burst of nudges with no mouse event, no settle notification with
\* finished=true is made while the settle job is pending, the one job is due
\* SettleDelay after the last nudge, and once it has run exactly one
\* notification has been made, no earlier than that.
SettleDebounce ==
    LET b == burst[1]
        handle == ov[1].settled_countdown_timer
    IN (b.len > 0 /\ ~b.mouse) =>
         IF ~IsNone(handle)
         THEN /\ b.settled = 0
              /\ PendingJobs(1, "settle") = { Job(The(handle), 1, "settle", SettleDelay - b.since) }
         ELSE /\ b.settled = 1
              /\ b.since >= SettleDelay
              /\ PendingJobs(1, "settle") = {}

\* C8 witness: a burst of two nudges has ended with its one notification.
BurstSettledWitness ==
    /\ burst[1].len = 2 /\ ~burst[1].mouse /\ burst[1].settled = 1
    /\ IsNone(ov[1].settled_countdown_timer)

\* Reading order: ascending y, then ascending x of the top-left corner.
ReadingLeq(a, b) == a.y < b.y \/ (a.y = b.y /\ a.x <= b.x)

RECURSIVE ReadingOrder(_)
ReadingOrder(matches) ==
    IF matches = << >> THEN << >>
    ELSE LET i == CHOOSE i \in 1..Len(matches) :
                    \A k \in 1..Len(matches) : ReadingLeq(matches[i], matches[k])
             rest == [k \in 1..(Len(matches) - 1) |->
                        IF k < i THEN matches[k] ELSE matches[k + 1]]
         IN << matches[i] >> \o ReadingOrder(rest)

\* C9: with an integer disambiguator i and n matches, the call selects the
\* i-th match (0-based) in reading order when 0 <= i < n and no match otherwise.
IndexSelectsInReadingOrder ==
    (~IsNone(call) /\ The(call).disambiguator.kind = "index") =>
        LET i == The(call).disambiguator.i
            n == Len(located)
        IN IF 0 <= i /\ i < n
           THEN outcome = "moved" /\ match_rect = Some(ReadingOrder(located)[i + 1])
           ELSE outcome = "returned" /\ match_rect = None

\* C10: with "mouse" the call selects the first match in reading order that
\* lies strictly after the reference point in reading order, and no match
\* when there is none.
NearestSelectsNextInReadingOrder ==
    (~IsNone(call) /\ The(call).disambiguator.kind = "mouse" /\ Len(located) > 0) =>
        LET ref == NormPoint(The(call).mouse, The(call).xoffset, The(call).yoffset,
                             located[1])
            after == FilterSeq(ReadingOrder(located), ref.x, ref.y)
        IN IF Len(after) > 0
           THEN outcome = "moved" /\ match_rect = Some(after[1])
           ELSE outcome = "returned" /\ match_rect = None

\* The reference point of a "mouse" or "mouse_cycle" call, and the matches
\* strictly after it, in reading order.
CallReference ==
    NormPoint(The(call).mouse, The(call).xoffset, The(call).yoffset, located[1])
MatchesAfterReference ==
    FilterSeq(ReadingOrder(located), CallReference.x, CallReference.y)

\* C11: with "mouse_cycle", when no match lies strictly after the reference
\* point, the call selects the first match in reading order (smallest y,
\* then smallest x), for every non-empty list of matches.
NearestCyclicWrapsToFirst ==
    (~IsNone(call) /\ The(call).disambiguator.kind = "mouse_cycle" /\ Len(located) > 0
       /\ Len(MatchesAfterReference) = 0)
    => outcome = "moved" /\ match_rect = Some(ReadingOrder(located)[1])

\* C12: when the search returns more than MaxShownMatches matches the call
\* aborts and the pointer stays where it was, whatever the disambiguator.
PointerGuardrailAborts ==
    (~IsNone(call) /\ Len(located) > MaxShownMatches)
    => outcome = "returned" /\ match_rect = None /\ mouse_pos = The(call).mouse

\* Whether the call, by the claim's reading, selects no match: no match was
\* found, the integer index is outside 0..n-1, or "mouse" has no match after
\* the reference point.
SelectsNoMatch ==
    LET d == The(call).disambiguator
    IN \/ Len(located) = 0
       \/ d.kind = "index" /\ (d.i < 0 \/ d.i >= Len(located))
       \/ d.kind = "mouse" /\ Len(MatchesAfterReference) = 0

\* C15: a call that selects no match completes without raising and leaves
\* the pointer where it was.
NoMatchLeavesPointer ==
    (~IsNone(call) /\ SelectsNoMatch)
    => outcome = "returned" /\ mouse_pos = The(call).mouse

\* The mouse events (settle jobs) of overlay o that run a finished=true
\* search which times out or finds more than MaxShownMatches matches.
DiscardingSettle(o) ==
    \/ \E evt \in MouseEvents : \E out \in MouseSearches(o, evt) :
         SettlesOnMouse(evt) /\ Flashes(out) /\ MouseEvent(o, evt, out)
    \/ \E j \in cron : \E out \in TimerSearches(j) :
         j.o = o /\ Flashes(out) /\ SettleTimer(j, out)

\* The result the handler of overlay o was last called with.
LastResult(o) == results[o][Len(results[o])]

\* C13: a finished=true search of the Image Selector that times out or finds
\* more than MaxShownMatches matches is discarded: the settle shows a flash
\* message and leaves the overlay open with an empty match list, the list
\* stays empty while that search is the last one, and an Enter then reports
\* index 0.
SearchDiscardedEndToEnd ==
    /\ [][\A o \in Ids :
            (ov[o].kind = "image" /\ DiscardingSettle(o)) =>
              /\ ov'[o].result_rects = << >>
              /\ ~IsNone(ov'[o].flash_text)
              /\ ov'[o].phase = ov[o].phase]_vars
    /\ [](\A o \in Ids : search[o] = "discarded" => ov[o].result_rects = << >>)
    /\ [][\A evt \in EnterReleases :
            (KeyEvent(1, evt) /\ search[1] = "discarded" /\ ~IsNone(ov[1].hl_region)) =>
              The(LastResult(1)').index = 0]_vars

\* C14: the completion of a worker that outlived its join never changes the
\* overlay's match list.
LateWorkerDiscarded ==
    [][\A o \in Ids : WorkerDone(o) => ov'[o].result_rects = ov[o].result_rects]_vars

ZeroArea(r) == r.width = 0 \/ r.height = 0

\* C16: for a region of zero area the crop is None and the self-match
\* search leaves an empty match list: an Image Selector confirmed with such
\* a region reports no image and holds no matches.
ZeroAreaYieldsNothing ==
    (ov[1].kind = "image" /\ ov[1].phase = "closed" /\ Len(results[1]) = 1
       /\ ~IsNone(results[1][1]) /\ ZeroArea(The(ov[1].hl_region)))
    => /\ IsNone(The(results[1][1]).image)
       /\ ov[1].result_rects = << >>

\* The capture of a screen on which no pixel has the sentinel colour.
NoSentinel == [case |-> "absent", rect |-> screen_rect]

\* C17: when the calibration capture shows no sentinel pixel the handler
\* keeps the nominal rectangle and moves the overlay to the "normal" state.
CalibrationFailureFallsBack ==
    [][\A j \in cron :
         CalculateRectTimer(j, NoSentinel) =>
           /\ ov'[j.o].can_rect = ov[j.o].can_rect
           /\ ov'[j.o].calculate_rect_state = "normal"]_vars

\* C18: every MarkerUi instance that was constructed has been destroyed,
\* except the one the global marker_ui refers to: the one made by the latest
\* marker_ui_show when no marker_ui_hide followed it.
AtMostOneMarkerUi ==
    \A i \in MarkerIds : marker_uis[i].state = "shown" => marker_ui = Some(i)

\* C18 witness: a second marker_ui_show has destroyed the first instance.
MarkerUiReplacedWitness ==
    /\ marker_uis[1].state = "destroyed" /\ marker_uis[2].state = "shown"
    /\ marker_ui = Some(2)

\* The events that change the stored region of overlay o: a primary-button
\* press, a mouse move while dragging, the release of an arrow key.
MutatingMouseEvents(o) ==
    { evt \in MouseEvents :
        \/ evt.event = "mousedown" /\ evt.button = 0
        \/ evt.event = "mousemove" /\ ov[o].is_selecting /\ ~IsNone(ov[o].hl_region) }
NudgeReleases(o) ==
    { evt \in KeyEvents : ~evt.down /\ evt.key \in KeymapKeys /\ ~IsNone(ov[o].hl_region) }

\* C19: every change of the region notifies _selection_settled(False) within
\* the same handler; in the Image Selector, whose hook clears the match
\* list, the list is empty right after each such event.
MutationNotifiesUnsettled ==
    [][ov[1].kind = "image" =>
         /\ \A evt \in MutatingMouseEvents(1) :
              MouseEvent(1, evt, NoSearch) => ov'[1].result_rects = << >>
         /\ \A evt \in NudgeReleases(1) :
              KeyEvent(1, evt) => ov'[1].result_rects = << >>]_vars

\* Both ends of the region lie within the rectangle on either axis.
InsideRect(r, can_rect) ==
    /\ can_rect.x <= r.x /\ r.x <= can_rect.x + can_rect.width
    /\ can_rect.x <= r.x + r.width /\ r.x + r.width <= can_rect.x + can_rect.width
    /\ can_rect.y <= r.y /\ r.y <= can_rect.y + can_rect.height
    /\ can_rect.y <= r.y + r.height /\ r.y + r.height <= can_rect.y + can_rect.height

\* C20: after the release of an arrow key, with any of Shift and Ctrl, the
\* region lies fully inside the canvas rectangle.
NudgeKeepsRegionInside ==
    [][\A evt \in NudgeReleases(1) :
         KeyEvent(1, evt) => InsideRect(The(ov'[1].hl_region), ov'[1].can_rect)]_vars

\* C21: after the release of an arrow key with Ctrl, with or without Shift,
\* the resized dimension is at least 1 and, when the region was inside the
\* canvas rectangle, its origin is where it was.
CtrlNudgeKeepsMinimumSize ==
    [][\A evt \in NudgeReleases(1) :
         ("ctrl" \in evt.mods /\ KeyEvent(1, evt)) =>
           LET before == The(ov[1].hl_region)
               after == The(ov'[1].hl_region)
           IN /\ after[keymap(evt.key).scale] >= 1
              /\ InsideRect(before, ov[1].can_rect) =>
                   after.x = before.x /\ after.y = before.y]_vars

\* C22: at most one settle job is pending for an overlay, and the stored
\* handle is the handle of that job: None when none is pending.
OneSettleTimerPending ==
    \A o \in Ids :
        IF IsNone(ov[o].settled_countdown_timer)
        THEN PendingJobs(o, "settle") = {}
        ELSE /\ Cardinality(PendingJobs(o, "settle")) = 1
             /\ \A j \in PendingJobs(o, "settle") : j.id = The(ov[o].settled_countdown_timer)

\* C22 witness: a nudge has replaced the pending job of an earlier nudge, and
\* the job armed last has run and cleared the handle.
SettleTimerRearmedWitness ==
    /\ burst[1].len = 2 /\ burst[1].settled = 1 /\ burst[1].mouse
    /\ IsNone(ov[1].settled_countdown_timer)
    /\ PendingJobs(1, "settle") = {}

\* The primary-button releases inside the rectangle the help panel had when
\* it was pressed: the events that complete a click on the panel.
PanelClickReleases(o) ==
    { evt \in MouseEvents :
        /\ evt.event = "mouseup" /\ evt.button = 0
        /\ ~IsNone(press[o]) /\ RectContains(The(press[o]).rect, evt.gpos) }

\* C23: once a click on the help panel is complete the panel is at the
\* other edge than before the press, the overlay is open, and the region,
\* the dragging flag and the offset point are what they were before the press.
PanelClickOnlyToggles ==
    [][\A evt \in PanelClickReleases(1) : \A out \in MouseSearches(1, evt) :
         MouseEvent(1, evt, out) =>
           /\ ov'[1].phase = "open"
           /\ ov'[1].text_position # The(press[1]).text_position
           /\ ov'[1].hl_region = The(press[1]).hl_region
           /\ ov'[1].is_selecting = The(press[1]).is_selecting
           /\ ov'[1].offset_coord = The(press[1]).offset_coord]_vars

\* C24: the index an Image Selector reports on Enter, passed as the integer
\* disambiguator of the pointer placement over the matches the overlay
\* holds, selects the confirmed normalised region.
EnterIndexSelectsRegion ==
    (ov[1].kind = "image" /\ ov[1].phase = "closed" /\ Len(results[1]) = 1
       /\ ~IsNone(results[1][1]) /\ ov[1].result_rects # << >>)
    => LET index == The(results[1][1]).index
           chosen == ChooseMatch(ov[1].result_rects, [kind |-> "index", i |-> index],
                                 [x |-> 0, y |-> 0], 0, 0)
       IN chosen.how = "moved" /\ chosen.match = get_region(ov[1].hl_region)

\* The position (1-based) of match m in the matches in reading order.
ReadingPosition(m) ==
    CHOOSE k \in 1..Len(located) : ReadingOrder(located)[k] = m

\* C25: when a call has placed the pointer on match M, a following call with
\* the same offsets and "mouse" selects the match right after M in reading
\* order and none when M is the last; with "mouse_cycle" it selects the
\* first match when M is the last.
NearestIteratesInReadingOrder ==
    [][(outcome = "moved" /\ ~IsNone(call')
          /\ The(call').disambiguator.kind \in { "mouse", "mouse_cycle" }
          /\ The(call').xoffset = The(call).xoffset
          /\ The(call').yoffset = The(call).yoffset)
       => LET order == ReadingOrder(located)
              k == ReadingPosition(The(match_rect))
          IN IF k < Len(order)
             THEN outcome' = "moved" /\ match_rect' = Some(order[k + 1])
             ELSE IF The(call').disambiguator.kind = "mouse_cycle"
             THEN outcome' = "moved" /\ match_rect' = Some(order[1])
             ELSE outcome' = "returned" /\ match_rect' = None]_vars

\* C26: a flash message stays displayed for FlashDelay from when it was
\* shown and is cleared then: the message is displayed exactly while less
\* than FlashDelay has passed since the last flash was shown, that is while
\* the clear job armed with it is pending.
FlashShownFullDelay ==
    \A o \in Ids :
        ov[o].phase = "open" =>
          (PendingJobs(o, "flash") # {} <=> ~IsNone(ov[o].flash_text))

\* C27: a match list that is not empty is a result of the self-match search
\* for the region the overlay holds now.
NoStaleHighlights ==
    \A o \in Ids :
        (ov[o].kind = "image" /\ ov[o].phase = "open" /\ ov[o].result_rects # << >>)
        => /\ ~IsNone(ov[o].hl_region)
           /\ ov[o].result_rects \in LocateResults(The(get_region(ov[o].hl_region)))

\* Whether marker_ui_mouse_move(label) has a marker to move to: a marker UI
\* exists and one of its markers carries the label.
LabelOnMarker(label) ==
    /\ ~IsNone(marker_ui)
    /\ \E i \in 1..Len(marker_uis[The(marker_ui)].markers) :
         marker_uis[The(marker_ui)].markers[i].label = label

\* C28: the tag "user.marker_ui_showing" is set exactly when the global
\* marker_ui is not None, and marker_ui_mouse_move leaves the pointer where
\* it is when there is no marker UI or no marker carries the label.
MarkerTagTracksReference ==
    /\ []("user.marker_ui_showing" \in ctx_tags <=> ~IsNone(marker_ui))
    /\ [][\A label \in AskedLabels :
            (marker_ui_mouse_move(label) /\ ~LabelOnMarker(label)) =>
              mouse_pos' = mouse_pos]_vars

\* C28 witness: the pointer was moved to a marker and the marker UI was
\* hidden afterwards.
MarkerHiddenWitness ==
    /\ IsNone(marker_ui) /\ ctx_tags = {}
    /\ marker_uis[1].state = "destroyed"
    /\ mouse_pos # [x |-> 0, y |-> 0]

====
